---- MODULE Spec2Model ----
(***************************************************************************)
(* Product Spec Generator: the App controller (productDescription,         *)
(* specifications, isLoading, error, englishCopied, arabicCopied) and the  *)
(* generateProductSpecifications service it drives.                        *)
(*                                                                         *)
(* A JavaScript string is a sequence of chunks (TLA+ strings); s1 + s2 is  *)
(* s1 \o s2 and "" is << >>.  A JavaScript value is a record with a type   *)
(* field: null, undefined, a string, a number, an object or an Error.      *)
(***************************************************************************)
EXTENDS Integers, Sequences, FiniteSets, TLC

\* ------------------------------------------------------------------ bounds
MaxDescLen == 1      \* longest description typed key by key
MaxCalls == 2        \* generate triggers accepted in one run
MaxCopies == 2       \* copies under way at once (being written or timed)

\* ------------------------------------------------------------- JS values
JSNull == [type |-> "null"]
JSUndefined == [type |-> "undefined"]
JSString(s) == [type |-> "string", v |-> s]
JSNumber(n) == [type |-> "number", v |-> n]
JSObject(props) == [type |-> "object", props |-> props]
JSError(name, message) == [type |-> "Error", name |-> name, message |-> message]

\* typeof v
TypeOf(v) ==
  CASE v.type = "string" -> "string"
    [] v.type = "number" -> "number"
    [] v.type = "undefined" -> "undefined"
    [] OTHER -> "object"

\* String.prototype.trim: whitespace and line terminators off both ends
WhiteSpace == {" ", "\n", "\t"}

RECURSIVE TrimStart(_)
TrimStart(s) ==
  IF s # << >> /\ Head(s) \in WhiteSpace THEN TrimStart(Tail(s)) ELSE s

RECURSIVE TrimEnd(_)
TrimEnd(s) ==
  IF s # << >> /\ s[Len(s)] \in WhiteSpace
    THEN TrimEnd(SubSeq(s, 1, Len(s) - 1))
    ELSE s

Trim(s) == TrimEnd(TrimStart(s))

\* !s for a string: the empty string is falsy
Falsy(v) ==
  \/ v.type \in {"null", "undefined"}
  \/ v.type = "string" /\ v.v = << >>
  \/ v.type = "number" /\ v.v = "0"

\* --------------------------------------------------------------- JSON.parse
\* A JSON text is a sequence of tokens: Quote, braces, colon, comma, null,
\* number tokens, the chunks and escapes of string literals, and whitespace.
Quote == "\""
JSONWhiteSpace == {" ", "\n", "\t"}
NumberTokens == {"0", "1"}
EscapedNewline == "\\n"

ParseFailed(i) == [ok |-> FALSE, val |-> JSUndefined, pos |-> i]
Parsed(v, i) == [ok |-> TRUE, val |-> v, pos |-> i]

RECURSIVE SkipWS(_, _)
SkipWS(s, i) ==
  IF i <= Len(s) /\ s[i] \in JSONWhiteSpace THEN SkipWS(s, i + 1) ELSE i

\* the index of the quote closing the literal whose content starts at i, or 0
RECURSIVE ClosingQuote(_, _)
ClosingQuote(s, i) ==
  IF i > Len(s) THEN 0
  ELSE IF s[i] = Quote THEN i
  ELSE IF s[i] \in {"\n", "\t"} THEN 0
  ELSE ClosingQuote(s, i + 1)

\* the characters a literal's content stands for: an escape is decoded
Unescape(s) == [k \in 1..Len(s) |-> IF s[k] = EscapedNewline THEN "\n" ELSE s[k]]

\* a string literal opening at s[i] = Quote
ParseString(s, i) ==
  LET j == ClosingQuote(s, i + 1) IN
    IF j = 0 THEN ParseFailed(i)
    ELSE Parsed(JSString(Unescape(SubSeq(s, i + 1, j - 1))), j + 1)

\* obj[key] = val on the object being built: a repeated key is overwritten
PutProp(props, key, val) ==
  [k \in DOMAIN props \cup {key} |-> IF k = key THEN val ELSE props[k]]

RECURSIVE ParseValue(_, _)
RECURSIVE ParseMembers(_, _, _, _)

ParseValue(s, i) ==
  IF i > Len(s) THEN ParseFailed(i)
  ELSE IF s[i] = Quote THEN ParseString(s, i)
  ELSE IF s[i] = "null" THEN Parsed(JSNull, i + 1)
  ELSE IF s[i] \in NumberTokens THEN Parsed(JSNumber(s[i]), i + 1)
  ELSE IF s[i] = "{" THEN ParseMembers(s, i + 1, << >>, TRUE)
  ELSE ParseFailed(i)

\* the members of an object after its opening brace (or after a comma)
ParseMembers(s, i, props, first) ==
  LET j == SkipWS(s, i) IN
    IF j > Len(s) THEN ParseFailed(j)
    ELSE IF s[j] = "}" /\ first THEN Parsed(JSObject(props), j + 1)
    ELSE IF s[j] # Quote THEN ParseFailed(j)
    ELSE
      LET key == ParseString(s, j)
          c == SkipWS(s, key.pos)
      IN
        IF ~key.ok \/ c > Len(s) \/ s[c] # ":" THEN ParseFailed(c)
        ELSE
          LET val == ParseValue(s, SkipWS(s, c + 1))
              m == SkipWS(s, val.pos)
              next == PutProp(props, key.val.v, val.val)
          IN
            IF ~val.ok \/ m > Len(s) THEN ParseFailed(m)
            ELSE IF s[m] = "," THEN ParseMembers(s, m + 1, next, FALSE)
            ELSE IF s[m] = "}" THEN Parsed(JSObject(next), m + 1)
            ELSE ParseFailed(m)

\* JSON.parse(s): ok is FALSE where it throws a SyntaxError
JSONParse(s) ==
  LET r == ParseValue(s, SkipWS(s, 1)) IN
    IF r.ok /\ SkipWS(s, r.pos) > Len(s) THEN r ELSE ParseFailed(r.pos)

\* ------------------------------------------------------ thrown / returned
Throw(e) == [threw |-> TRUE, val |-> e]
Return(v) == [threw |-> FALSE, val |-> v]

EnglishKey == << "englishSpecs" >>
ArabicKey == << "arabicSpecs" >>

NullReadMessage(key) ==
  << "Cannot read properties of null (reading '" >> \o key \o << "')" >>

\* v[key]: reading a property of null or undefined throws a TypeError
GetProp(v, key) ==
  IF v.type \in {"null", "undefined"}
    THEN Throw(JSError("TypeError", NullReadMessage(key)))
  ELSE IF v.type = "object" /\ key \in DOMAIN v.props THEN Return(v.props[key])
  ELSE Return(JSUndefined)

\* String(v)
StringOf(v) ==
  CASE v.type = "string" -> v.v
    [] v.type = "number" -> << v.v >>
    [] v.type = "Error" -> << v.name, ": " >> \o v.message
    [] v.type = "null" -> << "null" >>
    [] v.type = "undefined" -> << "undefined" >>
    [] OTHER -> << "[object Object]" >>

\* ------------------------------------------- generateProductSpecifications
MessagePrefix == << "Failed to generate specifications: " >>
NoContentMessage == << "No JSON content received from Gemini API." >>
InvalidStructureMessage ==
  << "Invalid JSON structure received from Gemini API. ",
     "Expected 'englishSpecs' and 'arabicSpecs' strings." >>
\* the engine's message for a JSON.parse failure
SyntaxErrorMessage == << "Unexpected token in JSON" >>

\* what the awaited ai.models.generateContent call settles with
TextOutcome(text) == [kind |-> "text", text |-> text, reason |-> JSUndefined]
RejectOutcome(reason) == [kind |-> "reject", text |-> << >>, reason |-> reason]

ValidateResponse_Unchecked(parsed) == Return(parsed)
\* the basic validation of the parsed response
ValidateResponse(parsed) ==
  LET en == GetProp(parsed, EnglishKey) IN
    IF en.threw THEN en
    ELSE IF TypeOf(en.val) # "string"
      THEN Throw(JSError("Error", InvalidStructureMessage))
    ELSE
      LET ar == GetProp(parsed, ArabicKey) IN
        IF ar.threw THEN ar
        ELSE IF TypeOf(ar.val) # "string"
          THEN Throw(JSError("Error", InvalidStructureMessage))
        ELSE Return(parsed)

\* the try block from the point where the awaited call has settled
HandleResponse(outcome) ==
  IF outcome.kind = "reject" THEN Throw(outcome.reason)
  ELSE
    LET jsonStr == Trim(outcome.text) IN
      IF jsonStr = << >> THEN Throw(JSError("Error", NoContentMessage))
      ELSE
        LET p == JSONParse(jsonStr) IN
          IF ~p.ok THEN Throw(JSError("SyntaxError", SyntaxErrorMessage))
          ELSE ValidateResponse(p.val)

\* error instanceof Error ? error.message : String(error)
ErrorText(e) == IF e.type = "Error" THEN e.message ELSE StringOf(e)

WrapError_DropsMessage(e) == JSError("Error", MessagePrefix)
\* the catch block: every failure is thrown again as one wrapped Error
WrapError(e) == JSError("Error", MessagePrefix \o ErrorText(e))

\* how the promise of generateProductSpecifications settles
generateProductSpecifications(outcome) ==
  LET r == HandleResponse(outcome) IN
    IF r.threw THEN Throw(WrapError(r.val)) ELSE r

\* ------------------------------------------------------------------ inputs
SeqsUpTo(S, n) == UNION {[1..k -> S] : k \in 0..n}

\* what the user can type into the textarea
DescriptionChars == {"a", " "}
Descriptions ==
  SeqsUpTo(DescriptionChars, MaxDescLen) \cup {<< " ", "a", " " >>, << "\n", " " >>}

Lit(s) == << Quote >> \o s \o << Quote >>
Member(key, valueTokens) == Lit(key) \o << ":" >> \o valueTokens

\* response bodies (response.text) the generation service can answer with
WellFormedBody ==
  << "\n", "{" >> \o Member(EnglishKey, << " " >> \o Lit(<< "* A", EscapedNewline, "* B" >>))
    \o << ",", " " >> \o Member(ArabicKey, Lit(<< "* C" >>)) \o << "}", " " >>
EmptyEnglishBody ==
  << "{" >> \o Member(EnglishKey, Lit(<< >>)) \o << "," >>
    \o Member(ArabicKey, Lit(<< "* C" >>)) \o << "}" >>
RepeatedKeyBody ==
  << "{" >> \o Member(EnglishKey, << "1" >>) \o << "," >>
    \o Member(ArabicKey, Lit(<< >>)) \o << "," >>
    \o Member(EnglishKey, Lit(<< "* A" >>)) \o << "}" >>
MissingArabicBody == << "{" >> \o Member(EnglishKey, Lit(<< "x" >>)) \o << "}" >>
NumberEnglishBody ==
  << "{" >> \o Member(EnglishKey, << "1" >>) \o << "," >>
    \o Member(ArabicKey, Lit(<< "* C" >>)) \o << "}" >>
NullArabicBody ==
  << "{" >> \o Member(EnglishKey, Lit(<< "x" >>)) \o << "," >>
    \o Member(ArabicKey, << "null" >>) \o << "}" >>
UnclosedBody == << "{" >> \o Member(EnglishKey, Lit(<< "x" >>))

Bodies ==
  { << >>, << " ", "\n" >>, << "not", " ", "json" >>, UnclosedBody,
    << "null" >>, << " ", "null" >>, << "1" >>, Lit(<< "x" >>), << "{", "}" >>,
    MissingArabicBody, NumberEnglishBody, NullArabicBody,
    WellFormedBody, EmptyEnglishBody, RepeatedKeyBody }

\* what the generation service can reject the call with
Rejections ==
  { JSError("Error", << "API key not valid" >>), JSError("Error", << >>),
    JSString(<< "quota exceeded" >>) }

Outcomes == {TextOutcome(b) : b \in Bodies} \cup {RejectOutcome(e) : e \in Rejections}

\* the credentials the environment can hold, and the one it starts with
Keys == {"key1", "key2"}
InitialKey == "key1"

Fields == {"english", "arabic"}
FieldKey(f) == IF f = "english" THEN EnglishKey ELSE ArabicKey

\* ------------------------------------------------------------------- state
VARIABLES
  productDescription,  \* useState<string>('')
  specifications,      \* useState<ProductSpecificationsOutput | null>(null)
  isLoading,           \* useState<boolean>(false)
  error,               \* useState<string | null>(null)
  englishCopied,       \* useState<boolean>(false)
  arabicCopied,        \* useState<boolean>(false)
  pending,             \* generateContent calls awaiting their answer
  calls,               \* generateContent calls made so far
  accepted,            \* generate triggers that passed the description check
  clipboardWrites,     \* per field: clipboard.writeText calls awaiting their answer
  timers,              \* per field: setTimeout callbacks not yet run (2 s not over)
  apiKey,              \* process.env.API_KEY
  lastEvent            \* the event the last step handled

appState == << productDescription, specifications, isLoading, error,
               englishCopied, arabicCopied >>
vars == << productDescription, specifications, isLoading, error, englishCopied,
           arabicCopied, pending, calls, accepted, clipboardWrites, timers,
           apiKey, lastEvent >>

NoOutcome == [kind |-> "none", text |-> << >>, reason |-> JSUndefined]
Event(name) == [name |-> name, field |-> "none", outcome |-> NoOutcome]
FieldEvent(name, f) == [name |-> name, field |-> f, outcome |-> NoOutcome]
SettleEvent(o) == [name |-> "settle", field |-> "none", outcome |-> o]

Init ==
  /\ productDescription = << >>
  /\ specifications = JSNull
  /\ isLoading = FALSE
  /\ error = JSNull
  /\ englishCopied = FALSE
  /\ arabicCopied = FALSE
  /\ pending = << >>
  /\ calls = 0
  /\ accepted = 0
  /\ clipboardWrites = [f \in Fields |-> 0]
  /\ timers = [f \in Fields |-> 0]
  /\ apiKey = InitialKey
  /\ lastEvent = Event("init")

\* ----------------------------------------------------------------- actions
TextareaDisabled_Never == FALSE
\* disabled={isLoading} on the textarea, the Clear Data and the Generate button
TextareaDisabled == isLoading
ClearDisabled == isLoading
GenerateDisabled_Never == FALSE
GenerateDisabled == isLoading

\* onChange of the textarea: setProductDescription(e.target.value)
ChangeDescription(value) ==
  /\ ~TextareaDisabled
  /\ productDescription' = value
  /\ lastEvent' = Event("change")
  /\ UNCHANGED << specifications, isLoading, error, englishCopied, arabicCopied,
                  pending, calls, accepted, clipboardWrites, timers, apiKey >>

EnterDescriptionMessage == << "Please enter a product description." >>
UnexpectedErrorMessage == << "An unexpected error occurred." >>

DescriptionMissing_NoTrim(description) == Falsy(JSString(description))
\* !productDescription.trim()
DescriptionMissing(description) == Falsy(JSString(Trim(description)))

ResetForGenerate_KeepsError ==
  [error |-> error, specifications |-> JSNull,
   englishCopied |-> FALSE, arabicCopied |-> FALSE]
ResetForGenerate_KeepsResult ==
  [error |-> JSNull, specifications |-> specifications,
   englishCopied |-> FALSE, arabicCopied |-> FALSE]
ResetForGenerate_KeepsCopied ==
  [error |-> JSNull, specifications |-> JSNull,
   englishCopied |-> englishCopied, arabicCopied |-> arabicCopied]
\* what handleGenerateSpecs sets before it looks at the description
ResetForGenerate ==
  [error |-> JSNull, specifications |-> JSNull,
   englishCopied |-> FALSE, arabicCopied |-> FALSE]

CredentialForCall_AtLoad == InitialKey
\* new GoogleGenAI({ apiKey: process.env.API_KEY }), made anew in each call
CredentialForCall == apiKey

\* the generateContent requests one generateProductSpecifications call makes
InvokeCollaborator(description) ==
  << [productDescription |-> description, apiKey |-> CredentialForCall] >>

\* handleGenerateSpecs up to its await
handleGenerateSpecs ==
  LET reset == ResetForGenerate IN
    /\ specifications' = reset.specifications
    /\ englishCopied' = reset.englishCopied
    /\ arabicCopied' = reset.arabicCopied
    /\ IF DescriptionMissing(productDescription)
         THEN /\ error' = JSString(EnterDescriptionMessage)
              /\ UNCHANGED << isLoading, pending, calls, accepted >>
         ELSE /\ calls < MaxCalls
              /\ error' = reset.error
              /\ isLoading' = TRUE
              /\ LET sent == InvokeCollaborator(productDescription) IN
                   /\ pending' = pending \o sent
                   /\ calls' = calls + Len(sent)
              /\ accepted' = accepted + 1
    /\ lastEvent' = Event("generate")
    /\ UNCHANGED << productDescription, clipboardWrites, timers, apiKey >>

\* a click on the Generate button: a disabled button runs no handler
ClickGenerate ==
  IF GenerateDisabled
    THEN /\ lastEvent' = Event("generateWhileDisabled")
         /\ UNCHANGED << productDescription, specifications, isLoading, error,
                         englishCopied, arabicCopied, pending, calls, accepted,
                         clipboardWrites, timers, apiKey >>
    ELSE handleGenerateSpecs

\* err.message || 'An unexpected error occurred.'
ErrorBanner(err) ==
  LET message == IF err.type = "Error" THEN JSString(err.message) ELSE JSUndefined
  IN IF Falsy(message) THEN JSString(UnexpectedErrorMessage) ELSE message

LoadingAfterSettle_TryOnly(r) == IF r.threw THEN isLoading ELSE FALSE
\* the finally block: setIsLoading(false)
LoadingAfterSettle(r) == FALSE

RetriedRequests_OnReject(request, outcome) ==
  IF outcome.kind = "reject" THEN << request >> ELSE << >>
\* the generateContent requests made again after a call has settled: the catch
\* block throws, and nothing awaits generateContent a second time
RetriedRequests(request, outcome) == << >>

Remove(q, i) == SubSeq(q, 1, i - 1) \o SubSeq(q, i + 1, Len(q))

\* handleGenerateSpecs from its await on: pending call i settles with outcome
GenerateSettled(i, outcome) ==
  /\ i \in 1..Len(pending)
  /\ LET again == RetriedRequests(pending[i], outcome)
         r == generateProductSpecifications(outcome)
     IN
       /\ pending' = Remove(pending, i) \o again
       /\ calls' = calls + Len(again)
       /\ IF again # << >>
            THEN UNCHANGED << specifications, error, isLoading >>
            ELSE /\ IF r.threw
                      THEN error' = ErrorBanner(r.val) /\ UNCHANGED specifications
                      ELSE specifications' = r.val /\ UNCHANGED error
                 /\ isLoading' = LoadingAfterSettle(r)
  /\ lastEvent' = SettleEvent(outcome)
  /\ UNCHANGED << productDescription, englishCopied, arabicCopied, accepted,
                  clipboardWrites, timers, apiKey >>

ClearedData_KeepsCopied ==
  [productDescription |-> << >>, specifications |-> JSNull, error |-> JSNull,
   englishCopied |-> englishCopied, arabicCopied |-> arabicCopied]
\* what handleClearData sets
ClearedData ==
  [productDescription |-> << >>, specifications |-> JSNull, error |-> JSNull,
   englishCopied |-> FALSE, arabicCopied |-> FALSE]

handleClearData ==
  LET cleared == ClearedData IN
    /\ productDescription' = cleared.productDescription
    /\ specifications' = cleared.specifications
    /\ error' = cleared.error
    /\ englishCopied' = cleared.englishCopied
    /\ arabicCopied' = cleared.arabicCopied
    /\ lastEvent' = Event("clear")
    /\ UNCHANGED << isLoading, pending, calls, accepted, clipboardWrites, timers, apiKey >>

\* a click on the Clear Data button
ClickClear == ~ClearDisabled /\ handleClearData

\* {specifications && ... {specifications.englishSpecs && ( <button ...> )}}
CopyButtonShown(f) ==
  /\ ~Falsy(specifications)
  /\ ~Falsy(GetProp(specifications, FieldKey(f)).val)

SetCopied_Both(f, value) == englishCopied' = value /\ arabicCopied' = value
\* setCopied(value) for the field's setter
SetCopied(f, value) ==
  IF f = "english"
    THEN englishCopied' = value /\ UNCHANGED arabicCopied
    ELSE arabicCopied' = value /\ UNCHANGED englishCopied

\* the copies whose write is awaited or whose timer has not run yet
CopiesUnderWay ==
  clipboardWrites["english"] + timers["english"]
    + clipboardWrites["arabic"] + timers["arabic"]

\* handleCopyText up to its await: navigator.clipboard.writeText(text)
ClickCopy(f) ==
  /\ CopyButtonShown(f)
  /\ CopiesUnderWay < MaxCopies
  /\ clipboardWrites' = [clipboardWrites EXCEPT ![f] = @ + 1]
  /\ lastEvent' = FieldEvent("copy", f)
  /\ UNCHANGED << productDescription, specifications, isLoading, error,
                  englishCopied, arabicCopied, pending, calls, accepted, timers,
                  apiKey >>

WriteContinues_Always(ok) == TRUE
\* whether handleCopyText goes on past its await inside the try block: a
\* refused write throws into the catch block, which only logs
WriteContinues(ok) == ok

\* handleCopyText from its await on: the write succeeded (ok) or was refused
WriteTextSettled(f, ok) ==
  /\ clipboardWrites[f] > 0
  /\ clipboardWrites' = [clipboardWrites EXCEPT ![f] = @ - 1]
  /\ IF WriteContinues(ok)
       THEN /\ SetCopied(f, TRUE)
            /\ timers' = [timers EXCEPT ![f] = @ + 1]
       ELSE UNCHANGED << englishCopied, arabicCopied, timers >>
  /\ lastEvent' = FieldEvent(IF ok THEN "copied" ELSE "copyFailed", f)
  /\ UNCHANGED << productDescription, specifications, isLoading, error,
                  pending, calls, accepted, apiKey >>

TimerCallbackValue_True == TRUE
\* the value the setTimeout callback sets: setCopied(false)
TimerCallbackValue == FALSE

\* the callback of the oldest pending timer of the field runs: every timer has
\* the same delay, so the timers of a field run in the order they were set
TimerFired(f) ==
  /\ timers[f] > 0
  /\ timers' = [timers EXCEPT ![f] = @ - 1]
  /\ SetCopied(f, TimerCallbackValue)
  /\ lastEvent' = FieldEvent("timer", f)
  /\ UNCHANGED << productDescription, specifications, isLoading, error,
                  pending, calls, accepted, clipboardWrites, apiKey >>

\* the environment's credential is replaced (the key chosen in the dialog)
RotateCredential(key) ==
  /\ key # apiKey
  /\ apiKey' = key
  /\ lastEvent' = Event("credential")
  /\ UNCHANGED << productDescription, specifications, isLoading, error,
                  englishCopied, arabicCopied, pending, calls, accepted,
                  clipboardWrites, timers >>

Next ==
  \/ \E value \in Descriptions : ChangeDescription(value)
  \/ ClickGenerate
  \/ \E i \in 1..Len(pending), outcome \in Outcomes : GenerateSettled(i, outcome)
  \/ ClickClear
  \/ \E f \in Fields : ClickCopy(f)
  \/ \E f \in Fields, ok \in BOOLEAN : WriteTextSettled(f, ok)
  \/ \E f \in Fields : TimerFired(f)
  \/ \E key \in Keys : RotateCredential(key)

Spec == Init /\ [][Next]_vars

\* every pending generateContent call is answered in the end
Answered == \E i \in 1..Len(pending), outcome \in Outcomes : GenerateSettled(i, outcome)
LiveSpec == Spec /\ WF_vars(Answered)

\* and every timer set runs its callback in the end
TimedSpec == LiveSpec /\ \A f \in Fields : WF_vars(TimerFired(f))

\* ------------------------------------------------------------------ claims
\* the last step ran handleGenerateSpecs (primed: the step being taken does)
GenerateStep == lastEvent'.name \in {"generate", "generateWhileDisabled"}
SettleStep == pending # << >> /\ lastEvent'.name = "settle"

WhitespaceOnly(s) == \A k \in 1..Len(s) : s[k] \in WhiteSpace

\* C1: at most one generateContent call is in flight, and a generate trigger
\* while isLoading dispatches no call and leaves description, result, error
\* and loading flag as they are.
C1_OneRequestInFlight ==
  /\ [](Len(pending) <= 1)
  /\ [][(isLoading /\ GenerateStep) =>
          /\ calls' = calls
          /\ pending' = pending
          /\ UNCHANGED << productDescription, specifications, error, isLoading >>]_vars

C1_Witness ==
  /\ lastEvent.name = "generateWhileDisabled"
  /\ isLoading
  /\ Len(pending) = 1

\* C2: a generate trigger on an empty or whitespace-only description makes no
\* generateContent call, does not enter Loading, and leaves a non-empty error.
C2_EmptyDescriptionRejected ==
  [][(~isLoading /\ GenerateStep /\ WhitespaceOnly(productDescription)) =>
       /\ calls' = calls
       /\ pending' = pending
       /\ ~isLoading'
       /\ error'.type = "string"
       /\ error'.v # << >>]_vars

C2_Witness ==
  /\ lastEvent.name = "generate"
  /\ productDescription # << >>
  /\ WhitespaceOnly(productDescription)
  /\ error = JSString(EnterDescriptionMessage)
  /\ ~isLoading

\* the body parses as a JSON object whose englishSpecs and arabicSpecs are strings
HasBothStrings(v) ==
  /\ v.type = "object"
  /\ {EnglishKey, ArabicKey} \subseteq DOMAIN v.props
  /\ v.props[EnglishKey].type = "string"
  /\ v.props[ArabicKey].type = "string"
WellFormed(body) == JSONParse(body).ok /\ HasBothStrings(JSONParse(body).val)

\* C3: when the call settles with a well-formed two-string body, the controller
\* is not loading, has no error, and stores the parsed strings unchanged.
C3_WellFormedBodySucceeds ==
  [][(SettleStep /\ lastEvent'.outcome.kind = "text"
        /\ WellFormed(lastEvent'.outcome.text)) =>
       LET parsed == JSONParse(lastEvent'.outcome.text).val IN
         /\ ~isLoading'
         /\ error' = JSNull
         /\ specifications'.type = "object"
         /\ GetProp(specifications', EnglishKey).val = parsed.props[EnglishKey]
         /\ GetProp(specifications', ArabicKey).val = parsed.props[ArabicKey]]_vars

C3_Witness ==
  /\ lastEvent = SettleEvent(TextOutcome(WellFormedBody))
  /\ ~isLoading
  /\ error = JSNull
  /\ GetProp(specifications, EnglishKey).val = JSString(<< "* A", "\n", "* B" >>)
  /\ GetProp(specifications, ArabicKey).val = JSString(<< "* C" >>)

\* the banner a failed generation shows for the given inner message
FailureBanner(inner) == JSString(MessagePrefix \o inner)

\* C4 (as claimed): a settled text body is checked in order (empty after
\* trimming, not JSON, a field missing or not a string) and each failed check
\* gives its own error; only a body passing all three gives a result.
C4_ChecksInOrder ==
  [][(SettleStep /\ lastEvent'.outcome.kind = "text") =>
       LET body == lastEvent'.outcome.text
           p == JSONParse(body)
       IN
         IF WhitespaceOnly(body)
           THEN error' = FailureBanner(NoContentMessage) /\ specifications' = JSNull
         ELSE IF ~p.ok
           THEN error' = FailureBanner(SyntaxErrorMessage) /\ specifications' = JSNull
         ELSE IF ~HasBothStrings(p.val)
           THEN error' = FailureBanner(InvalidStructureMessage) /\ specifications' = JSNull
         ELSE error' = JSNull /\ specifications' = p.val]_vars

\* C4, the part the code keeps: no stored result lacks a field or holds a
\* non-string, and the three checks give their errors for every parsed value
\* other than null.
C4_ChecksInOrderExceptNull ==
  /\ [](specifications # JSNull => HasBothStrings(specifications))
  /\ [][(SettleStep /\ lastEvent'.outcome.kind = "text") =>
          LET body == lastEvent'.outcome.text
              p == JSONParse(body)
          IN
            IF WhitespaceOnly(body)
              THEN error' = FailureBanner(NoContentMessage)
            ELSE IF ~p.ok
              THEN error' = FailureBanner(SyntaxErrorMessage)
            ELSE IF p.val = JSNull
              THEN error' = FailureBanner(NullReadMessage(EnglishKey))
            ELSE IF ~HasBothStrings(p.val)
              THEN error' = FailureBanner(InvalidStructureMessage)
            ELSE error' = JSNull /\ specifications' = p.val]_vars

IsSuffix(m, s) == Len(m) <= Len(s) /\ SubSeq(s, Len(s) - Len(m) + 1, Len(s)) = m

\* the message the service rejected the call with
RejectionMessage(reason) == IF reason.type = "Error" THEN reason.message ELSE reason.v

\* C5: when the generateContent call itself fails with message m, the
\* controller is not loading, holds no result, and its banner is the wrapped
\* error's message, which carries m.
C5_CollaboratorFailureWrapped ==
  [][(SettleStep /\ lastEvent'.outcome.kind = "reject") =>
       LET m == RejectionMessage(lastEvent'.outcome.reason) IN
         /\ ~isLoading'
         /\ specifications' = JSNull
         /\ error'.type = "string"
         /\ error'.v # m
         /\ IsSuffix(m, error'.v)]_vars

C5_Witness ==
  /\ lastEvent = SettleEvent(RejectOutcome(JSError("Error", << "API key not valid" >>)))
  /\ ~isLoading
  /\ specifications = JSNull
  /\ error = FailureBanner(<< "API key not valid" >>)

\* C6: a stored result and a stored error message never coexist.
C6_NeverSucceededAndFailed == ~(specifications # JSNull /\ error # JSNull)

C6_Witness ==
  /\ lastEvent.name = "settle"
  /\ error # JSNull
  /\ specifications = JSNull
  /\ calls = 2

\* C7: in the step in which isLoading becomes true, the result and the error
\* are null and both copy flags are false.
C7_LoadingEnteredCleared ==
  [][(~isLoading /\ isLoading') =>
       /\ specifications' = JSNull
       /\ error' = JSNull
       /\ ~englishCopied'
       /\ ~arabicCopied']_vars

C7_Witness ==
  /\ lastEvent.name = "generate"
  /\ isLoading
  /\ calls = 2
  /\ timers["english"] = 1

\* C8: once every pending call is answered, Loading is always left: the
\* controller reaches a state that is not loading, holds a result or an error,
\* and has the Generate button enabled.
C8_LoadingEnds ==
  isLoading ~> (/\ ~isLoading
                /\ (specifications # JSNull \/ error # JSNull)
                /\ ~GenerateDisabled)

C8_Witness ==
  /\ lastEvent.name = "settle"
  /\ lastEvent.outcome.kind = "reject"
  /\ ~isLoading
  /\ error # JSNull
  /\ ~GenerateDisabled

\* C9: the generateContent calls made always number the generate triggers
\* that passed the description check, also after a call has failed.
C9_NoRetry == calls = accepted

C9_Witness ==
  /\ lastEvent.name = "settle"
  /\ lastEvent.outcome.kind = "reject"
  /\ pending = << >>
  /\ calls = 1
  /\ accepted = 1

\* C10: right after the clear action the description is empty, the result and
\* the error are null, and both copy flags are false.
C10_ClearResets ==
  lastEvent.name = "clear" =>
    /\ productDescription = << >>
    /\ specifications = JSNull
    /\ error = JSNull
    /\ ~englishCopied
    /\ ~arabicCopied

C10_Witness ==
  /\ lastEvent.name = "clear"
  /\ calls = 1
  /\ timers["english"] = 1
  /\ ~englishCopied
  /\ productDescription = << >>

\* the copy flag of a field, and the other field
Copied(f) == IF f = "english" THEN englishCopied ELSE arabicCopied
OtherField(f) == IF f = "english" THEN "arabic" ELSE "english"

\* the step being taken handles the named event of field f
WriteStep(name, f) ==
  /\ lastEvent'.name = name
  /\ lastEvent'.field = f
  /\ clipboardWrites'[f] < clipboardWrites[f]
TimerStep(f) ==
  /\ lastEvent'.name = "timer"
  /\ lastEvent'.field = f
  /\ timers'[f] < timers[f]

\* C11 (as claimed): a timer set by an earlier copy does not turn the flag
\* off while the timer of a later copy of the same field is still pending,
\* that is, before 2 seconds have passed since the most recent copy.
C11_LaterCopyResetsTimer ==
  [][\A f \in Fields :
       (TimerStep(f) /\ timers'[f] > 0 /\ Copied(f)) => Copied(f)']_vars

\* C12: a successful copy sets the field's flag, the callback of its timer
\* leaves the flag false, and no flag stays true forever (each is false
\* again and again).
C12_CopyFlagTimed ==
  /\ [][\A f \in Fields : WriteStep("copied", f) => Copied(f)']_vars
  /\ [][\A f \in Fields : TimerStep(f) => ~Copied(f)']_vars
  /\ []<>(~englishCopied)
  /\ []<>(~arabicCopied)

C12_Witness ==
  /\ lastEvent = FieldEvent("timer", "english")
  /\ ~englishCopied
  /\ timers["english"] = 0
  /\ specifications # JSNull

\* C13: no step of a copy of one field (click, write settled, timer run)
\* changes the other field's flag.
C13_CopiesIndependent ==
  [][\A f \in Fields :
       lastEvent'.field = f => Copied(OtherField(f))' = Copied(OtherField(f))]_vars

C13_Witness ==
  /\ lastEvent = FieldEvent("timer", "english")
  /\ ~englishCopied
  /\ arabicCopied
  /\ timers["arabic"] = 1

\* C14 (as claimed): after a refused clipboard write the field's flag is
\* false, no timer was set, and error, result, loading flag and description
\* are as before.
C14_FailedCopyLeavesFlagFalse ==
  [][\A f \in Fields :
       WriteStep("copyFailed", f) =>
         /\ ~Copied(f)'
         /\ timers' = timers
         /\ UNCHANGED << error, specifications, isLoading, productDescription >>]_vars

\* C14 (amended): a refused clipboard write leaves both flags as they were,
\* sets no timer, and leaves error, result, loading flag and description as
\* before.
C14_FailedCopyChangesNothing ==
  [][\A f \in Fields :
       WriteStep("copyFailed", f) =>
         /\ UNCHANGED << englishCopied, arabicCopied >>
         /\ timers' = timers
         /\ UNCHANGED << error, specifications, isLoading, productDescription >>]_vars

C14_Witness ==
  /\ lastEvent = FieldEvent("copyFailed", "english")
  /\ englishCopied
  /\ timers["english"] = 1
  /\ clipboardWrites["english"] = 0

\* C15: every generateContent call carries the credential the environment
\* holds when the call is made.
C15_CurrentCredentialUsed ==
  [][accepted' # accepted =>
       /\ pending' # << >>
       /\ pending'[Len(pending')].apiKey = apiKey]_vars

C15_Witness ==
  /\ lastEvent.name = "generate"
  /\ calls = 2
  /\ Len(pending) = 1
  /\ pending[1].apiKey # InitialKey
  /\ pending[1].apiKey = apiKey

\* C16 (as claimed): a copy flag is true only while a result is present.
C16_CopiedImpliesResult ==
  (englishCopied \/ arabicCopied) => specifications # JSNull

\* C17: while isLoading, the result and the error are null and the
\* description is the one submitted.
C17_LoadingShowsNothing ==
  isLoading =>
    /\ specifications = JSNull
    /\ error = JSNull
    /\ Len(pending) = 1
    /\ productDescription = pending[1].productDescription

C17_Witness ==
  /\ isLoading
  /\ lastEvent.name = "credential"
  /\ productDescription = << " ", "a", " " >>
  /\ pending[1].productDescription = << " ", "a", " " >>

\* the last step ended a generate trigger: the description check refused it,
\* or its call settled
GenerateFinished ==
  \/ lastEvent.name = "settle"
  \/ lastEvent.name = "generate" /\ ~isLoading

\* C18: when a generate trigger has finished, the controller is not loading
\* and holds exactly one of a result and a non-empty error message.
C18_ExactlyOneOfResultAndError ==
  GenerateFinished =>
    /\ ~isLoading
    /\ \/ specifications # JSNull /\ error = JSNull
       \/ /\ specifications = JSNull
          /\ error.type = "string"
          /\ error.v # << >>

C18_Witness ==
  /\ lastEvent = SettleEvent(TextOutcome(<< "null" >>))
  /\ ~isLoading
  /\ specifications = JSNull
  /\ error.type = "string"

\* C19: a generate trigger refused by the description check leaves no result
\* and no copy flag, and leaves the description and the loading flag as before.
C19_RefusedGenerateDiscards ==
  [][(~isLoading /\ GenerateStep /\ WhitespaceOnly(productDescription)) =>
       /\ specifications' = JSNull
       /\ ~englishCopied'
       /\ ~arabicCopied'
       /\ UNCHANGED << productDescription, isLoading >>]_vars

C19_Witness ==
  /\ lastEvent.name = "generate"
  /\ ~isLoading
  /\ WhitespaceOnly(productDescription)
  /\ specifications = JSNull
  /\ timers["english"] = 1
  /\ ~englishCopied

====
